---- MODULE Spec2Model ----
(***************************************************************************)
(* Marker propagation core of the universal resolver:                      *)
(*   crates/uv-resolver/src/universal_marker.rs  (UniversalMarker)         *)
(*   crates/uv-resolver/src/graph_ops.rs         (marker_reachability,     *)
(*                                                simplify_conflict_markers)*)
(*                                                                         *)
(* The specifications share the variables below:                           *)
(*   Spec / SpecFair  marker_reachability, one step per pop / edge visit   *)
(*   SpecTwice        marker_reachability called twice on one graph        *)
(*   SpecSimplify / SpecSimplifyFair    simplify_conflict_markers          *)
(*   SpecSimplifyTwice  simplify_conflict_markers called twice on a graph  *)
(*   SpecAlgebra      the pure UniversalMarker operations                  *)
(***************************************************************************)
EXTENDS Integers, Sequences, FiniteSets, TLC

\* ------------------------------------------------------------------ bounds
MaxEdges == 3
MaxGroups == 2

Nodes == 1..4
NumNodes == Cardinality(Nodes)

\* --------------------------------------------------- the predicate engine
\* MarkerTree (uv_pep508) is a canonical decision diagram: two trees are
\* structurally equal exactly when the same inputs satisfy them, so a tree is
\* modelled by the set of inputs that satisfy it. A PEP 508 marker is read
\* against the environment and is a set of environments; a conflict marker
\* is read against the activated extras and is a set of sets of extras.
Envs == {"linux", "darwin"}
Extras == {"a", "b", "c"}
ExtraSets == SUBSET Extras

Pep508TRUE == Envs
ConflictTRUE == ExtraSets
MtFALSE == {}
MtOr(self, other) == self \cup other
MtAnd(self, other) == self \cap other
\* negate, of a conflict marker
MtNegate(self) == ExtraSets \ self
\* self.implies(other): self becomes (not self) or other
MtImplies(self, other) == MtOr(MtNegate(self), other)
MtIsFalse(self) == self = {}
MtIsDisjoint(self, other) == MtIsFalse(MtAnd(self, other))
\* MarkerTree::expression(Extra { Equal, name }): "extra == name"
MtExtra(name) == {x \in ExtraSets : name \in x}
\* an environment atom such as sys_platform == 'linux'
MtEnv(e) == {e}
\* simplify_extras_with(is_extra): every `extra == x` test with is_extra(x) is
\* folded away as true; isExtra is the set of names the closure accepts.
MtSimplifyExtrasWith(self, isExtra) == {x \in ExtraSets : (x \cup isExtra) \in self}

\* -------------------------------------------------------- UniversalMarker
UniversalMarker(p, c) == [pep508_marker |-> p, conflict_marker |-> c]
UmTRUE == UniversalMarker(Pep508TRUE, ConflictTRUE)
UmFALSE == UniversalMarker(MtFALSE, MtFALSE)

Or(self, other) ==
    UniversalMarker(MtOr(self.pep508_marker, other.pep508_marker),
                    MtOr(self.conflict_marker, other.conflict_marker))

And(self, other) ==
    UniversalMarker(MtAnd(self.pep508_marker, other.pep508_marker),
                    MtAnd(self.conflict_marker, other.conflict_marker))

Evaluate(self, env, extras) ==
    /\ env \in self.pep508_marker
    /\ extras \in self.conflict_marker

IsTrue(self) == self.pep508_marker = Pep508TRUE /\ self.conflict_marker = ConflictTRUE
IsFalse(self) == MtIsFalse(self.pep508_marker) \/ MtIsFalse(self.conflict_marker)
IsDisjointBoth(self, other) ==
    /\ MtIsDisjoint(self.pep508_marker, other.pep508_marker)
    /\ MtIsDisjoint(self.conflict_marker, other.conflict_marker)
IsDisjoint(self, other) ==
    \/ MtIsDisjoint(self.pep508_marker, other.pep508_marker)
    \/ MtIsDisjoint(self.conflict_marker, other.conflict_marker)

\* A conflict item names an extra or a dependency group; item.extra() is
\* None for a group.
ExtraItem(x) == [kind |-> "extra", name |-> x]
GroupItem(g) == [kind |-> "group", name |-> g]
ItemHasExtra(item) == item.kind = "extra"

\* The exclusion marker built by the two nested loops of imbibe: the union,
\* over every set and every pair of its items that are both extras, of
\* TRUE and (extra == e1) and (extra == e2).
ImbibePairs(conflicts) ==
    UNION { { MtAnd(MtAnd(ConflictTRUE, MtExtra(i1.name)), MtExtra(i2.name)) :
                <<i1, i2>> \in { p \in conflicts[g] \X conflicts[g] :
                                   /\ p[1] # p[2]
                                   /\ ItemHasExtra(p[1])
                                   /\ ItemHasExtra(p[2]) } }
            : g \in DOMAIN conflicts }
ImbibeExclusion(conflicts) == UNION ({MtFALSE} \cup ImbibePairs(conflicts))

ImbibeNoNegate(self, conflicts) ==
    IF conflicts = <<>> THEN self
    ELSE UniversalMarker(self.pep508_marker,
                         MtImplies(ImbibeExclusion(conflicts), self.conflict_marker))
ImbibeSwapped(self, conflicts) ==
    IF conflicts = <<>> THEN self
    ELSE UniversalMarker(self.pep508_marker,
                         MtImplies(self.conflict_marker,
                                   MtNegate(ImbibeExclusion(conflicts))))
Imbibe(self, conflicts) ==
    IF conflicts = <<>> THEN self
    ELSE UniversalMarker(self.pep508_marker,
                         MtImplies(MtNegate(ImbibeExclusion(conflicts)),
                                   self.conflict_marker))

AssumeExtraDropsPep508(self, extra) ==
    UniversalMarker(Pep508TRUE, MtSimplifyExtrasWith(self.conflict_marker, {extra}))
AssumeExtraInactive(self, extra) ==
    UniversalMarker(self.pep508_marker,
                    {x \in ExtraSets : (x \ {extra}) \in self.conflict_marker})
AssumeExtra(self, extra) ==
    UniversalMarker(self.pep508_marker,
                    MtSimplifyExtrasWith(self.conflict_marker, {extra}))

\* ------------------------------------------------------------------ state
VARIABLES
    edges,          \* the graph's edges, by EdgeIndex: [src, dst, w]
    edges0,         \* the edges as the graph was handed over (never changed)
    node_extra,     \* graph[node].extra(): an extra name, or "none"
    fork_markers,   \* marker_reachability's second argument
    reachability,   \* marker_reachability: FxHashMap<NodeIndex, UniversalMarker>
    queue,          \* the work stack of either traversal
    parent_index,   \* the node popped last (0 before the first pop)
    marker,         \* marker_reachability: the parent's marker read at the pop
    todo,           \* outgoing edges of parent_index the for loop still visits
    activated,      \* simplify_conflict_markers: FxHashMap<NodeIndex, set>
    assume_by_edge, \* simplify_conflict_markers: FxHashMap<EdgeIndex, set>
    seen,           \* simplify_conflict_markers: FxHashSet<NodeIndex>
    self0,          \* SpecAlgebra: the marker an operation was called on
    self1,          \* SpecAlgebra: the marker after the operation
    conflicts,      \* SpecAlgebra: the Conflicts given to imbibe
    assumed,        \* SpecAlgebra: the extra given to assume_extra ("none" before)
    other,          \* SpecAlgebra: the second marker given to is_disjoint
    result,         \* SpecAlgebra: the boolean is_disjoint returned
    pops,           \* history: how often each node was popped by simplify
    visits,         \* history: how often each edge was handled by simplify's for loop
    runs,           \* history: what earlier calls of simplify on this graph produced
    pc

vars == <<edges, edges0, node_extra, fork_markers, reachability, queue,
          parent_index, marker, todo, activated, assume_by_edge, seen,
          self0, self1, conflicts, assumed, other, result,
          pops, visits, runs, pc>>

graphVars == <<edges, edges0, node_extra, fork_markers>>
simplifyVars == <<activated, assume_by_edge, seen>>
algebraVars == <<self0, self1, conflicts, assumed, other, result>>
historyVars == <<pops, visits, runs>>

\* ------------------------------------------------------------ graph shape
Last(s) == s[Len(s)]
Front(s) == SubSeq(s, 1, Len(s) - 1)

\* edges_directed(n, Incoming) / edges_directed(n, Outgoing), as EdgeIndex sets
Incoming(es, n) == {e \in DOMAIN es : es[e].dst = n}
Outgoing(es, n) == {e \in DOMAIN es : es[e].src = n}

\* graph.node_indices().filter(no incoming edge).collect(): ascending index
NodeIndices == [i \in 1..NumNodes |-> i]
IsRoot(es, n) == Incoming(es, n) = {}
Roots(es) == SelectSeq(NodeIndices, LAMBDA n : IsRoot(es, n))
RootSet(es) == {n \in Nodes : IsRoot(es, n)}

\* Edge markers the graphs are built from.
EnvOnly(e) == UniversalMarker(MtEnv(e), ConflictTRUE)
EnvAndExtra(e, x) == UniversalMarker(MtEnv(e), MtExtra(x))
ExtraOnly(x) == UniversalMarker(Pep508TRUE, MtExtra(x))
NotExtra(x) == UniversalMarker(Pep508TRUE, MtNegate(MtExtra(x)))

\* Graphs: every list of at most MaxEdges edges between distinct nodes, with
\* markers from a palette; parallel edges differ in their marker. The order
\* in which a node's edges are visited is left open below, so only edge lists
\* in increasing code order are enumerated (any other list is one of these
\* with its EdgeIndex values renamed).
NumPairs == NumNodes * (NumNodes - 1)
PairSrc(idx) == (idx \div (NumNodes - 1)) + 1
PairDst(idx) ==
    LET d == (idx % (NumNodes - 1)) + 1
    IN  IF d >= PairSrc(idx) THEN d + 1 ELSE d
EdgeOf(code, palette) ==
    [src |-> PairSrc(code \div Len(palette)),
     dst |-> PairDst(code \div Len(palette)),
     w   |-> palette[(code % Len(palette)) + 1]]
RECURSIVE SortedCodes(_, _, _)
SortedCodes(k, lo, hi) ==
    IF k = 0 THEN {<<>>}
    ELSE UNION { {<<c>> \o s : s \in SortedCodes(k - 1, c + 1, hi)} : c \in lo..hi }
EdgeCodes(palette) ==
    UNION { SortedCodes(k, 0, NumPairs * Len(palette) - 1) : k \in 0..MaxEdges }
GraphOf(codes, palette) == [i \in 1..Len(codes) |-> EdgeOf(codes[i], palette)]

\* ---------------------------------------------------- marker_reachability
ReachPalette == <<UmTRUE, EnvAndExtra("linux", "a"), EnvAndExtra("darwin", "b")>>
\* fork_markers: no forks, or two forks
ForkChoices ==
    { <<>>,
      <<EnvAndExtra("darwin", "a"), EnvAndExtra("darwin", "b")>> }

RECURSIVE FoldOr(_, _)
FoldOr(ms, acc) == IF ms = <<>> THEN acc ELSE FoldOr(Tail(ms), Or(acc, Head(ms)))
RootMarkersAlwaysTrue(forks) == UmTRUE
RootMarkers(forks) == IF forks = <<>> THEN UmTRUE ELSE FoldOr(forks, UmFALSE)

NoSimplifyState ==
    /\ activated = <<>>
    /\ assume_by_edge = <<>>
    /\ seen = {}
NoAlgebraState ==
    /\ self0 = UmFALSE
    /\ self1 = UmFALSE
    /\ conflicts = <<>>
    /\ assumed = "none"
    /\ other = UmFALSE
    /\ result = FALSE
NoHistory ==
    /\ pops = <<>>
    /\ visits = <<>>
    /\ runs = <<>>

Init ==
    /\ \E codes \in EdgeCodes(ReachPalette) : edges = GraphOf(codes, ReachPalette)
    /\ edges0 = <<>>
    /\ node_extra = <<>>
    /\ fork_markers \in ForkChoices
    /\ queue = Roots(edges)
    /\ reachability = [r \in RootSet(edges) |-> RootMarkers(fork_markers)]
    /\ parent_index = 0
    /\ marker = UmFALSE
    /\ todo = {}
    /\ pc = "loop"
    /\ NoSimplifyState
    /\ NoAlgebraState
    /\ NoHistory

\* while let Some(parent_index) = queue.pop(); marker = reachability[&parent_index]
PopPeek ==
    /\ pc = "loop"
    /\ queue # <<>>
    /\ parent_index' = Last(queue)
    /\ queue' = queue
    /\ IF Last(queue) \in DOMAIN reachability
       THEN /\ marker' = reachability[Last(queue)]
            /\ todo' = Outgoing(edges, Last(queue))
            /\ pc' = IF Outgoing(edges, Last(queue)) = {} THEN "loop" ELSE "edges"
       ELSE /\ pc' = "panic"
            /\ UNCHANGED <<marker, todo>>
    /\ UNCHANGED <<graphVars, reachability, simplifyVars, algebraVars, historyVars>>
Pop ==
    /\ pc = "loop"
    /\ queue # <<>>
    /\ parent_index' = Last(queue)
    /\ queue' = Front(queue)
    /\ IF Last(queue) \in DOMAIN reachability
       THEN /\ marker' = reachability[Last(queue)]
            /\ todo' = Outgoing(edges, Last(queue))
            /\ pc' = IF Outgoing(edges, Last(queue)) = {} THEN "loop" ELSE "edges"
       ELSE /\ pc' = "panic"
            /\ UNCHANGED <<marker, todo>>
    /\ UNCHANGED <<graphVars, reachability, simplifyVars, algebraVars, historyVars>>

\* child_marker = child_edge.weight().clone(); child_marker.and(marker.clone())
ChildMarker(e) == And(edges[e].w, marker)

AfterEdge(e) ==
    /\ todo' = todo \ {e}
    /\ pc' = IF todo \ {e} = {} THEN "loop" ELSE "edges"
    /\ UNCHANGED <<graphVars, parent_index, marker, simplifyVars, algebraVars, historyVars>>

\* Entry::Occupied: merge with the existing marker, re-queue on a change
VisitOccupiedOverwrite(e) ==
    /\ pc = "edges"
    /\ e \in todo
    /\ edges[e].dst \in DOMAIN reachability
    /\ IF ChildMarker(e) # reachability[edges[e].dst]
       THEN /\ reachability' = [reachability EXCEPT ![edges[e].dst] = ChildMarker(e)]
            /\ queue' = Append(queue, edges[e].dst)
       ELSE UNCHANGED <<reachability, queue>>
    /\ AfterEdge(e)
VisitOccupiedKeepOld(e) ==
    /\ pc = "edges"
    /\ e \in todo
    /\ edges[e].dst \in DOMAIN reachability
    /\ UNCHANGED <<reachability, queue>>
    /\ AfterEdge(e)
VisitOccupiedNoRequeue(e) ==
    /\ pc = "edges"
    /\ e \in todo
    /\ edges[e].dst \in DOMAIN reachability
    /\ LET merged == Or(ChildMarker(e), reachability[edges[e].dst])
       IN  IF merged # reachability[edges[e].dst]
           THEN /\ reachability' = [reachability EXCEPT ![edges[e].dst] = merged]
                /\ queue' = queue
           ELSE UNCHANGED <<reachability, queue>>
    /\ AfterEdge(e)
VisitOccupied(e) ==
    /\ pc = "edges"
    /\ e \in todo
    /\ edges[e].dst \in DOMAIN reachability
    /\ LET merged == Or(ChildMarker(e), reachability[edges[e].dst])
       IN  IF merged # reachability[edges[e].dst]
           THEN /\ reachability' = [reachability EXCEPT ![edges[e].dst] = merged]
                /\ queue' = Append(queue, edges[e].dst)
           ELSE UNCHANGED <<reachability, queue>>
    /\ AfterEdge(e)

\* Entry::Vacant: first marker of the child, always queued
VisitVacantNoInsert(e) ==
    /\ pc = "edges"
    /\ e \in todo
    /\ edges[e].dst \notin DOMAIN reachability
    /\ reachability' = reachability
    /\ queue' = Append(queue, edges[e].dst)
    /\ AfterEdge(e)
VisitVacantSkipFalse(e) ==
    /\ pc = "edges"
    /\ e \in todo
    /\ edges[e].dst \notin DOMAIN reachability
    /\ IF IsFalse(ChildMarker(e))
       THEN UNCHANGED <<reachability, queue>>
       ELSE /\ reachability' = [n \in DOMAIN reachability \cup {edges[e].dst} |->
                                  IF n = edges[e].dst THEN ChildMarker(e)
                                  ELSE reachability[n]]
            /\ queue' = Append(queue, edges[e].dst)
    /\ AfterEdge(e)
VisitVacant(e) ==
    /\ pc = "edges"
    /\ e \in todo
    /\ edges[e].dst \notin DOMAIN reachability
    /\ reachability' = [n \in DOMAIN reachability \cup {edges[e].dst} |->
                          IF n = edges[e].dst THEN ChildMarker(e)
                          ELSE reachability[n]]
    /\ queue' = Append(queue, edges[e].dst)
    /\ AfterEdge(e)

\* the while loop ends on an empty stack; reachability is returned
Return ==
    /\ pc = "loop"
    /\ queue = <<>>
    /\ pc' = "done"
    /\ UNCHANGED <<graphVars, reachability, queue, parent_index, marker, todo,
                   simplifyVars, algebraVars, historyVars>>

Next ==
    \/ Pop
    \/ \E e \in DOMAIN edges : VisitOccupied(e)
    \/ \E e \in DOMAIN edges : VisitVacant(e)
    \/ Return

Spec == Init /\ [][Next]_vars
\* The loop is sequential code: whenever a step is possible it is taken.
SpecFair == Init /\ [][Next]_vars /\ WF_vars(Next)

\* Two calls on the same graph. node_indices() lists the nodes in the order
\* they were added to the graph, which is not part of the graph's structure:
\* the first call stacks the roots in ascending order, the second in any
\* order; both visit the outgoing edges of a node in any order.
Orders(S) ==
    { q \in [1..Cardinality(S) -> S] : \A i, j \in DOMAIN q : i # j => q[i] # q[j] }

InitTwice ==
    /\ Init
    /\ fork_markers = <<>>

\* marker_reachability(&graph, fork_markers) called again; runs keeps what
\* the first call returned and the root order the second call starts from
PropagateAgain ==
    /\ pc = "done"
    /\ runs = <<>>
    /\ \E q \in Orders(RootSet(edges)) :
         /\ queue' = q
         /\ runs' = <<[result |-> reachability, roots |-> q]>>
    /\ reachability' = [r \in RootSet(edges) |-> RootMarkers(fork_markers)]
    /\ parent_index' = 0
    /\ marker' = UmFALSE
    /\ todo' = {}
    /\ pc' = "loop"
    /\ UNCHANGED <<graphVars, simplifyVars, algebraVars, pops, visits>>

NextTwice ==
    \/ Next
    \/ PropagateAgain

SpecTwice == InitTwice /\ [][NextTwice]_vars

\* ------------------------------------------- marker_reachability: claims
Done == pc = "done"

\* Every walk from a root, as <<end node, conjunction of the root marker and
\* the edge markers along it>>; walks of up to Len(edges) + 1 edges cover all
\* simple paths and one more turn around any cycle.
RECURSIVE WalkMarkers(_, _, _)
WalkMarkers(n, m, k) ==
    {<<n, m>>} \cup
    (IF k = 0 THEN {}
     ELSE UNION { WalkMarkers(edges[e].dst,
                              UniversalMarker(edges[e].w.pep508_marker \cap m.pep508_marker,
                                              edges[e].w.conflict_marker \cap m.conflict_marker),
                              k - 1)
                  : e \in Outgoing(edges, n) })
RootCondition ==
    IF fork_markers = <<>> THEN UmTRUE
    ELSE UniversalMarker(UNION {fork_markers[i].pep508_marker : i \in DOMAIN fork_markers},
                         UNION {fork_markers[i].conflict_marker : i \in DOMAIN fork_markers})
AllWalkMarkers ==
    UNION { WalkMarkers(r, RootCondition, Len(edges) + 1) : r \in RootSet(edges) }
WalksTo(n) == {q[2] : q \in {q \in AllWalkMarkers : q[1] = n}}
PathUnion(n) ==
    UniversalMarker(UNION {m.pep508_marker : m \in WalksTo(n)},
                    UNION {m.conflict_marker : m \in WalksTo(n)})

\* C1: when marker_reachability returns, the marker of every node in the
\* result is the per-component union, over every path from a root to the
\* node, of the per-component intersection of the root marker and the edge
\* markers along the path.
C1_UnionOverPaths ==
    Done => \A n \in DOMAIN reachability : reachability[n] = PathUnion(n)

\* R -> P (always), P -> S (darwin, extra b), no forks: S ends as the edge marker
C1_Witness ==
    /\ Done
    /\ fork_markers = <<>>
    /\ \E r \in RootSet(edges), p, s \in Nodes :
         /\ p # s
         /\ \E e1, e2 \in DOMAIN edges :
              /\ edges[e1] = [src |-> r, dst |-> p, w |-> UmTRUE]
              /\ edges[e2] = [src |-> p, dst |-> s, w |-> EnvAndExtra("darwin", "b")]
              /\ Incoming(edges, s) = {e2}
         /\ reachability[s] = EnvAndExtra("darwin", "b")

\* C2: a node reached from a root by exactly two edges (markers X and Y, root
\* marker TRUE) ends with a marker that evaluates true on exactly the inputs
\* on which X or Y evaluates true.
C2_ExactUnion ==
    Done /\ fork_markers = <<>> =>
      \A a \in DOMAIN reachability : \A e1, e2 \in DOMAIN edges :
         ( /\ e1 # e2
           /\ Incoming(edges, a) = {e1, e2}
           /\ IsRoot(edges, edges[e1].src)
           /\ IsRoot(edges, edges[e2].src) )
         => \A env \in Envs, extras \in SUBSET Extras :
               Evaluate(reachability[a], env, extras)
                 <=> ( \/ Evaluate(edges[e1].w, env, extras)
                       \/ Evaluate(edges[e2].w, env, extras) )

\* C4: marker_reachability terminates: the work stack runs empty and the
\* function returns, on every graph, cyclic ones included.
C4_Terminates == <>Done

\* a cycle A -> B -> A entered from a root, both nodes in the result
C4_Witness ==
    /\ Done
    /\ \E a, b \in DOMAIN reachability : \E e1, e2, e3 \in DOMAIN edges :
         /\ a # b
         /\ edges[e1].src = a /\ edges[e1].dst = b
         /\ edges[e2].src = b /\ edges[e2].dst = a
         /\ IsRoot(edges, edges[e3].src) /\ edges[e3].dst = a

\* nodes reachable from a root along directed edges
RECURSIVE Closure(_)
Closure(S) ==
    LET T == S \cup {edges[e].dst : e \in {e \in DOMAIN edges : edges[e].src \in S}}
    IN  IF T = S THEN S ELSE Closure(T)
ReachableFromRoots == Closure(RootSet(edges))

C6_OnlyWidens ==
    [][\A n \in DOMAIN reachability :
          /\ n \in DOMAIN reachability'
          /\ reachability[n].pep508_marker \subseteq reachability'[n].pep508_marker
          /\ reachability[n].conflict_marker \subseteq reachability'[n].conflict_marker]_vars

\* a node whose marker was set from one edge and then widened by a second one
C6_Witness ==
    \E n \in DOMAIN reachability : \E e1, e2 \in Incoming(edges, n) :
       /\ IsRoot(edges, edges[e1].src)
       /\ IsRoot(edges, edges[e2].src)
       /\ reachability[n] # And(edges[e1].w, RootCondition)
       /\ reachability[n] # And(edges[e2].w, RootCondition)
       /\ reachability[n] = Or(And(edges[e1].w, RootCondition),
                               And(edges[e2].w, RootCondition))

\* ---------------------------------------------- simplify_conflict_markers
\* Edge markers of the graphs given to simplify_conflict_markers; one graph
\* carries the same marker on all its edges.
SimplifyPalette ==
    { ExtraOnly("a"),
      UniversalMarker(MtEnv("linux"), MtOr(MtExtra("a"), MtExtra("b"))),
      UniversalMarker(Pep508TRUE, MtAnd(MtExtra("a"), MtNegate(MtExtra("b")))) }
\* graph[node].extra() of every node: "none", or the extra the node stands for
NodeExtraChoices ==
    { f \in [Nodes -> {"none", "a", "b"}] : Cardinality({n \in Nodes : f[n] # "none"}) <= 2 }

OwnExtra(n) == IF node_extra[n] = "none" THEN {} ELSE {node_extra[n]}
\* map.get(&k).cloned().unwrap_or_default()
GetOrDefault(map, k) == IF k \in DOMAIN map THEN map[k] ELSE {}
\* map.entry(k).or_default().extend(xs)
Extend(map, k, xs) ==
    [j \in DOMAIN map \cup {k} |-> IF j = k THEN GetOrDefault(map, k) \cup xs ELSE map[j]]

InitSimplify ==
    /\ \E w \in SimplifyPalette : \E codes \in EdgeCodes(<<w>>) :
          edges = GraphOf(codes, <<w>>)
    /\ edges0 = edges
    /\ node_extra \in NodeExtraChoices
    /\ fork_markers = <<>>
    /\ reachability = <<>>
    /\ marker = UmFALSE
    /\ queue = Roots(edges)
    /\ parent_index = 0
    /\ todo = {}
    /\ activated = <<>>
    /\ assume_by_edge = <<>>
    /\ seen = {}
    /\ pc = "loop"
    /\ pops = [n \in Nodes |-> 0]
    /\ visits = [e \in DOMAIN edges |-> 0]
    /\ runs = <<>>
    /\ NoAlgebraState

\* while let Some(parent_index) = queue.pop()
SimplifyPop ==
    /\ pc = "loop"
    /\ queue # <<>>
    /\ parent_index' = Last(queue)
    /\ queue' = Front(queue)
    /\ todo' = Outgoing(edges, Last(queue))
    /\ pc' = IF Outgoing(edges, Last(queue)) = {} THEN "loop" ELSE "edges"
    /\ pops' = [pops EXCEPT ![Last(queue)] = @ + 1]
    /\ UNCHANGED <<graphVars, reachability, marker, simplifyVars, algebraVars,
                   visits, runs>>

\* the extras collected for one child edge
EdgeExtrasNoParent(e) ==
    GetOrDefault(activated, parent_index) \cup OwnExtra(edges[e].dst)
EdgeExtras(e) ==
    GetOrDefault(activated, parent_index)
      \cup OwnExtra(parent_index) \cup OwnExtra(edges[e].dst)

\* the body of the for loop over the parent's outgoing edges
SimplifyVisitExtendParent(e) ==
    /\ pc = "edges"
    /\ e \in todo
    /\ activated' = Extend(activated, parent_index, EdgeExtras(e))
    /\ assume_by_edge' = Extend(assume_by_edge, e, EdgeExtras(e))
    /\ IF edges[e].dst \notin seen
       THEN /\ seen' = seen \cup {edges[e].dst}
            /\ queue' = Append(queue, edges[e].dst)
       ELSE UNCHANGED <<seen, queue>>
    /\ todo' = todo \ {e}
    /\ pc' = IF todo \ {e} = {} THEN "loop" ELSE "edges"
    /\ visits' = [visits EXCEPT ![e] = @ + 1]
    /\ UNCHANGED <<graphVars, reachability, parent_index, marker, algebraVars,
                   pops, runs>>
SimplifyVisitNoSeen(e) ==
    /\ pc = "edges"
    /\ e \in todo
    /\ activated' = Extend(activated, edges[e].dst, EdgeExtras(e))
    /\ assume_by_edge' = Extend(assume_by_edge, e, EdgeExtras(e))
    /\ seen' = seen \cup {edges[e].dst}
    /\ queue' = Append(queue, edges[e].dst)
    /\ todo' = todo \ {e}
    /\ pc' = IF todo \ {e} = {} THEN "loop" ELSE "edges"
    /\ visits' = [visits EXCEPT ![e] = @ + 1]
    /\ UNCHANGED <<graphVars, reachability, parent_index, marker, algebraVars,
                   pops, runs>>
SimplifyVisit(e) ==
    /\ pc = "edges"
    /\ e \in todo
    /\ activated' = Extend(activated, edges[e].dst, EdgeExtras(e))
    /\ assume_by_edge' = Extend(assume_by_edge, e, EdgeExtras(e))
    /\ IF edges[e].dst \notin seen
       THEN /\ seen' = seen \cup {edges[e].dst}
            /\ queue' = Append(queue, edges[e].dst)
       ELSE UNCHANGED <<seen, queue>>
    /\ todo' = todo \ {e}
    /\ pc' = IF todo \ {e} = {} THEN "loop" ELSE "edges"
    /\ visits' = [visits EXCEPT ![e] = @ + 1]
    /\ UNCHANGED <<graphVars, reachability, parent_index, marker, algebraVars,
                   pops, runs>>

\* for extra in &extras { graph[edge_id].assume_extra(extra) }, the extras
\* taken in the order ord lists them
RECURSIVE AssumeAll(_, _, _)
AssumeAll(m, extras, ord) ==
    IF ord = <<>> THEN m
    ELSE AssumeAll(IF Head(ord) \in extras THEN AssumeExtra(m, Head(ord)) ELSE m,
                   extras, Tail(ord))
ExtraOrders ==
    { ord \in [1..Cardinality(Extras) -> Extras] :
        \A i, j \in DOMAIN ord : i # j => ord[i] # ord[j] }

\* the loop over assume_by_edge that follows the traversal; the hash sets are
\* iterated in an unspecified order
SimplifyApply ==
    /\ pc = "loop"
    /\ queue = <<>>
    /\ \E ord \in ExtraOrders :
         edges' = [e \in DOMAIN edges |->
                     IF e \in DOMAIN assume_by_edge
                     THEN [edges[e] EXCEPT !.w = AssumeAll(edges[e].w, assume_by_edge[e], ord)]
                     ELSE edges[e]]
    /\ pc' = "done"
    /\ UNCHANGED <<edges0, node_extra, fork_markers, reachability, queue,
                   parent_index, marker, todo, simplifyVars, algebraVars, historyVars>>

NextSimplify ==
    \/ SimplifyPop
    \/ \E e \in DOMAIN edges : SimplifyVisit(e)
    \/ SimplifyApply

SpecSimplify == InitSimplify /\ [][NextSimplify]_vars
\* The function is sequential code: whenever a step is possible it is taken.
SpecSimplifyFair == InitSimplify /\ [][NextSimplify]_vars /\ WF_vars(NextSimplify)

\* simplify_conflict_markers called again on the graph as it was handed to
\* the first call, the roots now stacked in any order; runs keeps what the
\* first call assumed and left on the edges, and the second call's root order
SimplifyAgain ==
    /\ pc = "done"
    /\ runs = <<>>
    /\ \E q \in Orders(RootSet(edges)) :
         /\ queue' = q
         /\ runs' = <<[result |-> assume_by_edge, labels |-> edges, roots |-> q]>>
    /\ edges' = edges0
    /\ activated' = <<>>
    /\ assume_by_edge' = <<>>
    /\ seen' = {}
    /\ pops' = [n \in Nodes |-> 0]
    /\ visits' = [e \in DOMAIN edges |-> 0]
    /\ parent_index' = 0
    /\ todo' = {}
    /\ pc' = "loop"
    /\ UNCHANGED <<edges0, node_extra, fork_markers, reachability, marker, algebraVars>>

NextSimplifyTwice ==
    \/ NextSimplify
    \/ SimplifyAgain

SpecSimplifyTwice == InitSimplify /\ [][NextSimplifyTwice]_vars

\* -------------------------------------- simplify_conflict_markers: claims
\* nodes reachable from a root without passing a node that carries extra f
RECURSIVE ClosureAvoiding(_, _)
ClosureAvoiding(S, f) ==
    LET T == S \cup { edges[e].dst : e \in { e \in DOMAIN edges :
                                               /\ edges[e].src \in S
                                               /\ node_extra[edges[e].dst] # f } }
    IN  IF T = S THEN S ELSE ClosureAvoiding(T, f)
ReachableAvoiding(f) ==
    ClosureAvoiding({r \in RootSet(edges) : node_extra[r] # f}, f)

\* C3: every extra assumed on an edge is carried by a node on every path
\* from a root up to and including the edge's target.
C3_AssumedExtrasAreCertain ==
    \A e \in DOMAIN assume_by_edge : \A f \in assume_by_edge[e] :
       \/ node_extra[edges[e].dst] = f
       \/ edges[e].src \notin ReachableAvoiding(f)

\* C7 as claimed: after simplify, for an edge and ONE extra assumed on it, the
\* simplified conflict marker agrees with the original one on every set of
\* activated extras that holds that extra.
C7_AgreesWhereOneAssumedExtraActive ==
    Done => \A e \in DOMAIN assume_by_edge : \A f \in assume_by_edge[e] :
              \A x \in ExtraSets :
                 f \in x => ( x \in edges[e].w.conflict_marker
                                <=> x \in edges0[e].w.conflict_marker )

\* C7 (amended): after simplify, the simplified conflict marker of an edge
\* agrees with the original one on every set of activated extras that holds
\* ALL the extras assumed on that edge.
C7_AgreesWhereAllAssumedExtrasActive ==
    Done => \A e \in DOMAIN assume_by_edge : \A x \in ExtraSets :
              assume_by_edge[e] \subseteq x
                => ( x \in edges[e].w.conflict_marker
                       <=> x \in edges0[e].w.conflict_marker )

\* an edge with two assumed extras whose conflict marker was rewritten
C7_Witness ==
    /\ Done
    /\ \E e \in DOMAIN assume_by_edge :
         /\ assume_by_edge[e] = {"a", "b"}
         /\ edges[e].w.conflict_marker # edges0[e].w.conflict_marker

\* C8: after simplify, every edge whose source is reachable from a root has
\* its source's and its target's own extra among the assumed extras, and its
\* conflict marker is the original one with the assumed extras folded away
\* (so it no longer depends on the own extras).
C8_OwnExtrasAssumed ==
    Done => \A e \in DOMAIN edges :
              edges[e].src \in ReachableFromRoots =>
                LET own == OwnExtra(edges[e].src) \cup OwnExtra(edges[e].dst)
                    final == edges[e].w.conflict_marker
                IN  /\ e \in DOMAIN assume_by_edge
                    /\ own \subseteq assume_by_edge[e]
                    /\ final = MtSimplifyExtrasWith(edges0[e].w.conflict_marker,
                                                    assume_by_edge[e])
                    /\ \A f \in own : \A x \in ExtraSets :
                          x \in final <=> (x \cup {f}) \in final

\* root -> P[a] -> Q with "extra a" on P -> Q: the edge ends always true
C8_Witness ==
    /\ Done
    /\ \E e1, e2 \in DOMAIN edges :
         /\ IsRoot(edges, edges[e1].src)
         /\ node_extra[edges[e1].src] = "none"
         /\ edges[e1].dst = edges[e2].src
         /\ node_extra[edges[e2].src] = "a"
         /\ node_extra[edges[e2].dst] = "none"
         /\ edges0[e2].w.conflict_marker = MtExtra("a")
         /\ edges[e2].w.conflict_marker = ConflictTRUE

\* ------------------------------------------- UniversalMarker operations
\* The conflict sets a Conflicts value is built from; "dev" is a dependency
\* group, which has no extra.
ConflictSets ==
    << {ExtraItem("a"), ExtraItem("b")},
       {ExtraItem("b"), ExtraItem("c")},
       {ExtraItem("a"), ExtraItem("b"), ExtraItem("c")},
       {ExtraItem("a"), GroupItem("dev")},
       {ExtraItem("a"), ExtraItem("c"), GroupItem("dev")} >>
\* Conflicts: at most MaxGroups conflict sets (the marker imbibe builds does
\* not depend on their order, so they are listed in non-decreasing order)
ConflictChoices ==
    UNION { { [i \in 1..k |-> ConflictSets[idx[i] + 1]] :
                idx \in SortedCodes(k, 0, Len(ConflictSets) - 1) }
            : k \in 0..MaxGroups }
\* the markers the operations are called on: every conflict marker over
\* Extras, under a trivial or a non-trivial PEP 508 marker
AlgebraMarkers ==
    { UniversalMarker(p, c) : p \in {Pep508TRUE, MtEnv("linux")}, c \in SUBSET ExtraSets }

InitAlgebra ==
    /\ self0 \in AlgebraMarkers
    /\ self1 = self0
    /\ conflicts \in ConflictChoices
    /\ assumed = "none"
    /\ pc = "call"
    /\ edges = <<>>
    /\ edges0 = <<>>
    /\ node_extra = <<>>
    /\ fork_markers = <<>>
    /\ reachability = <<>>
    /\ queue = <<>>
    /\ parent_index = 0
    /\ marker = UmFALSE
    /\ todo = {}
    /\ other = UmFALSE
    /\ result = FALSE
    /\ NoSimplifyState
    /\ NoHistory

\* self.imbibe(&conflicts)
CallImbibe ==
    /\ pc = "call"
    /\ self1' = Imbibe(self0, conflicts)
    /\ pc' = "imbibe"
    /\ UNCHANGED <<graphVars, reachability, queue, parent_index, marker, todo,
                   simplifyVars, self0, conflicts, assumed, other, result,
                   historyVars>>

\* self.assume_extra(&extra)
CallAssumeExtra(extra) ==
    /\ pc = "call"
    /\ self1' = AssumeExtra(self0, extra)
    /\ assumed' = extra
    /\ pc' = "assume_extra"
    /\ UNCHANGED <<graphVars, reachability, queue, parent_index, marker, todo,
                   simplifyVars, self0, conflicts, other, result, historyVars>>

\* self.imbibe(&conflicts) once more, on the marker the first call left
CallImbibeAgain ==
    /\ pc = "imbibe"
    /\ self0' = self1
    /\ self1' = Imbibe(self1, conflicts)
    /\ pc' = "imbibe_again"
    /\ UNCHANGED <<graphVars, reachability, queue, parent_index, marker, todo,
                   simplifyVars, conflicts, assumed, other, result, historyVars>>

\* the markers given to is_disjoint as its argument
DisjointOthers ==
    { UniversalMarker(p, c) :
        p \in {Pep508TRUE, MtEnv("linux"), MtEnv("darwin"), MtFALSE},
        c \in {ConflictTRUE, MtFALSE, MtExtra("a"), MtNegate(MtExtra("a")),
               MtAnd(MtExtra("a"), MtExtra("b")), MtExtra("c")} }

\* self.is_disjoint(&other)
CallIsDisjoint(o) ==
    /\ pc = "call"
    /\ other' = o
    /\ result' = IsDisjoint(self0, o)
    /\ pc' = "is_disjoint"
    /\ UNCHANGED <<graphVars, reachability, queue, parent_index, marker, todo,
                   simplifyVars, self0, self1, conflicts, assumed, historyVars>>

NextAlgebra ==
    \/ CallImbibe
    \/ CallImbibeAgain
    \/ \E o \in DisjointOthers : CallIsDisjoint(o)
    \/ \E extra \in Extras : CallAssumeExtra(extra)

SpecAlgebra == InitAlgebra /\ [][NextAlgebra]_vars

\* ----------------------------------- UniversalMarker operations: claims
\* a set of activated extras with at most one extra of every conflict set
Consistent(x) ==
    \A g \in DOMAIN conflicts :
       Cardinality({i \in conflicts[g] : ItemHasExtra(i) /\ i.name \in x}) <= 1
Consistency == {x \in ExtraSets : Consistent(x)}

\* C9 as claimed: imbibe and assume_extra leave the set of activated-extra
\* sets that satisfy the conflict marker unchanged.
C9_SameSatisfyingSets ==
    pc \in {"imbibe", "assume_extra"} => self1.conflict_marker = self0.conflict_marker

\* C9 (amended): imbibe and assume_extra leave the conflict marker unchanged
\* on the activated-extra sets their assumption allows: imbibe on the sets
\* with at most one extra of every conflict set, assume_extra(f) on the sets
\* that hold f. Elsewhere the marker may change.
C9_SameUnderAssumption ==
    /\ pc = "imbibe" =>
         \A x \in Consistency :
            x \in self1.conflict_marker <=> x \in self0.conflict_marker
    /\ pc = "assume_extra" =>
         \A x \in ExtraSets :
            assumed \in x => (x \in self1.conflict_marker <=> x \in self0.conflict_marker)

\* assume_extra changed which sets satisfy the conflict marker
C9_Witness ==
    /\ pc = "assume_extra"
    /\ self1.conflict_marker # self0.conflict_marker

\* C10: imbibe replaces the conflict marker by consistency.implies(old), with
\* consistency true exactly on the sets with at most one active extra per
\* conflict set, and leaves the PEP 508 marker alone; so the markers before
\* and after evaluate alike on every such set.
C10_ImbibeIsConsistencyImplies ==
    pc = "imbibe" =>
      /\ self1.conflict_marker = (ExtraSets \ Consistency) \cup self0.conflict_marker
      /\ self1.pep508_marker = self0.pep508_marker
      /\ \A env \in Envs : \A x \in Consistency :
            Evaluate(self1, env, x) <=> Evaluate(self0, env, x)

\* imbibe with two conflict sets rewrote the conflict marker
C10_Witness ==
    /\ pc = "imbibe"
    /\ Len(conflicts) >= 1
    /\ Consistency # ExtraSets
    /\ self1.conflict_marker # self0.conflict_marker

\* C11: a second imbibe with the same conflicts leaves the marker the first
\* imbibe produced unchanged, conflict marker and PEP 508 marker alike.
C11_ImbibeIdempotent ==
    pc = "imbibe_again" => self1 = self0

\* the second imbibe ran on a marker that is neither trivial nor free of
\* conflicts: some sets of extras are inconsistent and true only for that
C11_Witness ==
    /\ pc = "imbibe_again"
    /\ Len(conflicts) = MaxGroups
    /\ Consistency # ExtraSets
    /\ self0.conflict_marker # ConflictTRUE
    /\ self0.conflict_marker # ExtraSets \ Consistency
    /\ self0.pep508_marker # Pep508TRUE

\* C12: is_disjoint returns true exactly when the PEP 508 markers have no
\* environment in common or the conflict markers have no set of extras in
\* common, and when it returns true no environment and set of extras makes
\* both markers evaluate to true.
C12_IsDisjointSound ==
    pc = "is_disjoint" =>
      /\ result <=> ( \/ self0.pep508_marker \cap other.pep508_marker = {}
                      \/ self0.conflict_marker \cap other.conflict_marker = {} )
      /\ result => ~ \E env \in Envs, x \in ExtraSets :
                        Evaluate(self0, env, x) /\ Evaluate(other, env, x)

\* two satisfiable markers that share an environment but no set of extras
C12_Witness ==
    /\ pc = "is_disjoint"
    /\ result
    /\ ~IsFalse(self0) /\ ~IsFalse(other)
    /\ self0.pep508_marker \cap other.pep508_marker # {}
    /\ self0.conflict_marker \cap other.conflict_marker = {}

\* C13: when marker_reachability returns, for every node of the result, every
\* walk from a root to it and every environment and set of extras on which the
\* root marker and all edge markers of the walk evaluate to true (that is, on
\* which their conjunction does), the node's marker evaluates to true.
C13_NoLivePathMissed ==
    Done => \A n \in DOMAIN reachability : \A m \in WalksTo(n) :
              \A env \in Envs, x \in ExtraSets :
                 Evaluate(m, env, x) => Evaluate(reachability[n], env, x)

\* a node with two live paths, each true on an input the other is false on
C13_Witness ==
    /\ Done
    /\ \E n \in DOMAIN reachability : \E m1, m2 \in WalksTo(n) :
         \E env1, env2 \in Envs, x1, x2 \in ExtraSets :
            /\ Evaluate(m1, env1, x1) /\ ~Evaluate(m2, env1, x1)
            /\ Evaluate(m2, env2, x2) /\ ~Evaluate(m1, env2, x2)
            /\ Evaluate(reachability[n], env1, x1)
            /\ Evaluate(reachability[n], env2, x2)

\* C14: in every state of marker_reachability every root is mapped to the
\* root marker: TRUE when fork_markers is empty, else the or of all its
\* entries; so a root keeps that marker up to and in the returned mapping.
C14_RootsKeepRootMarker ==
    \A r \in RootSet(edges) :
       /\ r \in DOMAIN reachability
       /\ reachability[r] = RootCondition

\* with fork markers the roots end with their union, other nodes with less
C14_Witness ==
    /\ Done
    /\ fork_markers # <<>>
    /\ \E r \in RootSet(edges) :
         /\ reachability[r] = UniversalMarker(MtEnv("darwin"),
                                              MtOr(MtExtra("a"), MtExtra("b")))
         /\ ~IsTrue(reachability[r])
         /\ \E e \in Outgoing(edges, r) : reachability[edges[e].dst] # reachability[r]

\* C15: in simplify no node is popped more than once and no node waits on the
\* stack twice or after it was popped, roots included; no edge is handled more
\* than once; and the traversal ends, with every edge whose source is
\* reachable from a root handled exactly once and every other edge never.
C15_EachNodeOnce ==
    /\ [](/\ \A n \in Nodes : pops[n] <= 1
          /\ \A e \in DOMAIN edges : visits[e] <= 1
          /\ \A i, j \in DOMAIN queue : i # j => queue[i] # queue[j]
          /\ \A i \in DOMAIN queue : pops[queue[i]] = 0)
    /\ <>(/\ Done
          /\ \A n \in Nodes : pops[n] = IF n \in ReachableFromRoots THEN 1 ELSE 0
          /\ \A e \in DOMAIN edges :
                visits[e] = IF edges[e].src \in ReachableFromRoots THEN 1 ELSE 0)

\* a cycle below a root: the node that closes it was seen, not pushed again
C15_Witness ==
    /\ Done
    /\ \E e1, e2, e3 \in DOMAIN edges :
         /\ IsRoot(edges, edges[e1].src)
         /\ edges[e1].dst = edges[e2].src
         /\ edges[e2].dst = edges[e3].src
         /\ edges[e3].dst = edges[e2].src
         /\ visits[e1] = 1 /\ visits[e2] = 1 /\ visits[e3] = 1
         /\ pops[edges[e1].src] = 1 /\ edges[e1].src \notin seen
         /\ pops[edges[e2].src] = 1

\* C16: a second call of marker_reachability on the same graph and fork
\* markers, with the roots stacked in any order and the edges of each node
\* visited in any order, returns the same mapping as the first call.
C16_SameResultInAnyOrder ==
    Done /\ runs # <<>> => reachability = runs[1].result

\* the second call stacked two roots the other way round and reached a node
\* that both of them lead to, on different markers
C16_Witness ==
    /\ Done
    /\ runs # <<>>
    /\ runs[1].roots # Roots(edges)
    /\ \E n \in DOMAIN reachability : \E e1, e2 \in Incoming(edges, n) :
         /\ edges[e1].src # edges[e2].src
         /\ IsRoot(edges, edges[e1].src)
         /\ IsRoot(edges, edges[e2].src)
         /\ edges[e1].w # edges[e2].w
         /\ Outgoing(edges, n) # {}

\* nodes with several incoming edges, and everything reachable from them
JoinNodes == {n \in Nodes : Cardinality(Incoming(edges, n)) >= 2}
BelowJoins == Closure(JoinNodes)

\* C17: two calls of simplify on the same graph, differing in the order of
\* roots and edges, handle the same edges, and the extras they assume can
\* differ only on edges that leave a node with several incoming edges or a
\* node below one (where they do differ: see the witness); elsewhere the
\* assumed extras and the edge markers are the same.
C17_OrdersDifferOnlyBelowJoins ==
    Done /\ runs # <<>> =>
      /\ DOMAIN assume_by_edge = DOMAIN runs[1].result
      /\ \A e \in DOMAIN assume_by_edge :
            edges[e].src \notin BelowJoins =>
              /\ assume_by_edge[e] = runs[1].result[e]
              /\ edges[e] = runs[1].labels[e]

\* p has two incoming edges; the two calls popped p's predecessors in
\* different orders, assumed different extras on an edge leaving p and left
\* different markers on it
C17_Witness ==
    /\ Done
    /\ runs # <<>>
    /\ \E p \in JoinNodes : \E e \in Outgoing(edges, p) :
         /\ assume_by_edge[e] # runs[1].result[e]
         /\ edges[e].w # runs[1].labels[e].w
         /\ activated[p] \ (assume_by_edge[e] \cap runs[1].result[e]) # {}

\* C18: simplify changes nothing but conflict markers of edges: in every
\* state the graph has the edges it was given, each with its source, target
\* and PEP 508 marker; an edge whose source is not reachable from a root has
\* its whole marker; and no step changes a node's extra.
C18_OnlyConflictMarkersChange ==
    /\ [](/\ DOMAIN edges = DOMAIN edges0
          /\ \A e \in DOMAIN edges :
                /\ edges[e].src = edges0[e].src
                /\ edges[e].dst = edges0[e].dst
                /\ edges[e].w.pep508_marker = edges0[e].w.pep508_marker
                /\ edges0[e].src \notin ReachableFromRoots => edges[e] = edges0[e])
    /\ [][node_extra' = node_extra /\ edges0' = edges0]_vars

\* one edge below a root had its conflict marker rewritten under a PEP 508
\* marker that is not TRUE; an edge on a cycle no root leads to kept a marker
\* that its own nodes' extras would have rewritten
C18_Witness ==
    /\ Done
    /\ \E e1, e2 \in DOMAIN edges :
         /\ edges[e1].w.conflict_marker # edges0[e1].w.conflict_marker
         /\ edges[e1].w.pep508_marker # Pep508TRUE
         /\ edges[e2].src \notin ReachableFromRoots
         /\ edges[e2] = edges0[e2]
         /\ MtSimplifyExtrasWith(edges0[e2].w.conflict_marker,
                                 OwnExtra(edges[e2].src) \cup OwnExtra(edges[e2].dst))
              # edges0[e2].w.conflict_marker

\* the nodes waiting on the work stack
OnStack == {queue[i] : i \in DOMAIN queue}

\* C19: between two iterations of marker_reachability's while loop, and at
\* the return, every node that has a marker and is not on the work stack is
\* settled on all its outgoing edges: the child has a marker, and or-ing the
\* and of the edge marker and the node's marker into it changes nothing.
C19_OffStackNodesAreSettled ==
    pc \in {"loop", "done"} =>
      \A n \in DOMAIN reachability \ OnStack : \A e \in Outgoing(edges, n) :
         /\ edges[e].dst \in DOMAIN reachability
         /\ Or(And(edges[e].w, reachability[n]), reachability[edges[e].dst])
              = reachability[edges[e].dst]

\* mid-run: a settled node that was popped, an edge from it to a child whose
\* marker another path has widened beyond what this edge gives, and work left
C19_Witness ==
    /\ pc = "loop"
    /\ queue # <<>>
    /\ \E n \in DOMAIN reachability \ OnStack : \E e \in Outgoing(edges, n) :
         /\ ~IsRoot(edges, n)
         /\ ~IsFalse(And(edges[e].w, reachability[n]))
         /\ reachability[edges[e].dst] # And(edges[e].w, reachability[n])

\* C20: every node on the work stack has an entry in reachability, in every
\* state, so the lookup reachability[&parent_index] after a pop never fails.
C20_StackedNodesHaveMarkers ==
    /\ OnStack \subseteq DOMAIN reachability
    /\ pc # "panic"

\* a node that is not a root was popped and its marker read, while another
\* node that is not a root waits on the stack
C20_Witness ==
    /\ pc = "edges"
    /\ ~IsRoot(edges, parent_index)
    /\ marker = reachability[parent_index]
    /\ ~IsFalse(marker)
    /\ \E n \in OnStack : ~IsRoot(edges, n)

====
